---- MODULE Spec2Model ----
(***************************************************************************)
(* Model of the activity-tracking backend (src/app.py, src/models.py,      *)
(* src/blueprints/api_v1.py).                                              *)
(*                                                                         *)
(* State: the two tables of the SQLite file data.db (users, records), the  *)
(* last request with its response, and what the handler did with the       *)
(* database session.  Tokens are stateless and never expire: the server    *)
(* accepts every token it can have signed, one per row of users.           *)
(* One action per HTTP handler; an action is the whole handler, including  *)
(* its commit or rollback.                                                 *)
(*                                                                         *)
(* Time is counted in whole seconds on a scaled-down calendar of           *)
(* SecondsPerDay seconds per day.  A datetime is the number of seconds     *)
(* since the epoch; a date is the number of days since the epoch.          *)
(***************************************************************************)
EXTENDS Integers, Sequences, FiniteSets, TLC

VARIABLES users, records, req, resp, txn

vars == <<users, records, req, resp, txn>>

\* ------------------------------------------------------------------ bounds
MaxRecords == 3       \* rows of activity_record present when the service starts
SecondsPerDay == 2    \* length of a calendar day on the scaled-down clock
MaxDays == 2          \* largest explicit ?days= value requested

\* --------------------------------------------------------------- constants
DefaultDays == 7      \* reqparse default of the days argument

\* Python None / SQL NULL in a string-valued position
None == "<None>"

\* ------------------------------------------------------------ value helpers
\* Python truthiness of a str-or-None value: None and "" are falsy
Falsy(v) == v = None \/ v = ""

\* dict.get(key, default)
DictGet(d, k, default) == IF k \in DOMAIN d THEN d[k] ELSE default

\* ------------------------------------------------------------------- users
\* werkzeug.security: a salted one-way hash.  The stored value carries the
\* salt and a digest that depends on both salt and password.
Salts == {"s1", "s2"}

generate_password_hash(salt, password) ==
    [salt |-> salt, digest |-> <<salt, password>>]

check_password_hash(pwhash, password) ==
    pwhash.digest = <<pwhash.salt, password>>

\* password_hash of a User object before set_password
NoHash == [salt |-> None, digest |-> <<None, None>>]

\* User.set_password / User.check_password
set_password(user, salt, password) ==
    [user EXCEPT !.password_hash = generate_password_hash(salt, password)]

check_password(user, password) == check_password_hash(user.password_hash, password)

\* User.to_dict
UserToDict(user) == [id |-> user.id, username |-> user.username]

\* str(user.id) and int(get_jwt_identity())
Str(n) == <<"str", n>>
Int_(s) == s[2]

\* create_access_token(identity=str(user.id), expires_delta=False)
create_access_token(identity) == [sub |-> identity, exp |-> None]

\* current_user_id()
current_user_id(token) == Int_(token.sub)

\* integer primary key assigned by SQLite on insert: max(id) + 1
NextId(rows) ==
    IF rows = {} THEN 1
    ELSE (CHOOSE m \in {r.id : r \in rows} : \A r \in rows : r.id <= m) + 1

\* -------------------------------------------------------------- responses
\* A response is [status, body, by]: by = "handler" when the handler built
\* it, "framework" when it was produced outside the handler (jwt_required,
\* or the generic error handler of the API object for an escaped exception).
Response(status, body) == [status |-> status, body |-> body, by |-> "handler"]

ErrorBody(msg) == [error |-> msg]

GenericError == [status |-> 500,
                 body |-> [message |-> "Internal Server Error"],
                 by |-> "framework"]

Unauthorized401 == [status |-> 401,
                    body |-> [msg |-> "Missing Authorization Header"],
                    by |-> "framework"]

NotFound404 == Response(404, ErrorBody("record not found or no permission"))

BadCredentials401 == Response(401, ErrorBody("bad username or password"))

\* ---------------------------------------------------------- wire datetimes
\* An ISO-8601 string on the wire is [secs, zone]: zone "Z" or "+00:00" for
\* a UTC suffix, "" for none, "bad" for text that is no timestamp, None for
\* an absent value.
NoTimestamp == [secs |-> 0, zone |-> None]

\* s.replace('Z', '+00:00')
ReplaceZ(s) == IF s.zone = "Z" THEN [s EXCEPT !.zone = "+00:00"] ELSE s

\* results of a computation that may raise: exc = "" when it returned val
\* db tells whether it was the database that raised, at flush or commit
Returned(v) == [exc |-> "", val |-> v, db |-> FALSE]
Raised(e) == [exc |-> e, val |-> 0, db |-> FALSE]
DbRaised(e) == [exc |-> e, val |-> 0, db |-> TRUE]

\* datetime.datetime.fromisoformat: an aware datetime for a zone suffix, a
\* naive one without, ValueError for anything else
fromisoformat(s) ==
    IF s.zone = "+00:00" THEN Returned([secs |-> s.secs, aware |-> TRUE])
    ELSE IF s.zone = "" THEN Returned([secs |-> s.secs, aware |-> FALSE])
    ELSE Raised("ValueError: Invalid isoformat string")

\* (a - b).total_seconds() then int(): TypeError when exactly one of the two
\* datetimes carries a zone
DurationSeconds(a, b) ==
    IF a.aware # b.aware
    THEN Raised("TypeError: can't subtract offset-naive and offset-aware datetimes")
    ELSE Returned(a.secs - b.secs)

\* a DateTime column stores the naive wall-clock value
ToColumn(dt) == dt.secs
FromColumn(t) == [secs |-> t, aware |-> FALSE]

\* datetime.isoformat() of a value read from a DateTime column (NOT NULL, so
\* the None branch of to_dict is never taken): a string without zone suffix
isoformat(t) == [secs |-> t, zone |-> ""]

\* datetime.date(): the calendar day a datetime falls on
DateOf(t) == t \div SecondsPerDay

\* --------------------------------------------------------- activity records
\* columns of class ActivityRecord
Columns == {"id", "title", "start_time", "end_time", "duration_seconds",
            "memo", "type", "user_id"}

\* ActivityRecord.to_dict
to_dict(r) ==
    [id |-> r.id, title |-> r.title, type |-> r.type,
     start_time |-> isoformat(r.start_time),
     end_time |-> isoformat(r.end_time),
     duration_seconds |-> r.duration_seconds,
     memo |-> r.memo, user_id |-> r.user_id]

\* ActivityRecord(**kwargs): the declarative constructor accepts only names
\* that are attributes of the class
ActivityRecordInit(kwargs) ==
    IF \E k \in DOMAIN kwargs : k \notin Columns
    THEN Raised("TypeError: invalid keyword argument for ActivityRecord")
    ELSE Returned(kwargs)

\* getattr(record, name) on a loaded row
HasAttr(name) == name \in Columns

\* db.session.add(row); db.session.commit(): NOT NULL columns are enforced,
\* and the database itself may refuse the write
InsertRecord(rows, obj, db_fails) ==
    IF db_fails THEN DbRaised("OperationalError")
    ELSE IF "type" \notin DOMAIN obj \/ "title" \notin DOMAIN obj \/ obj.title = None
    THEN DbRaised("IntegrityError: NOT NULL constraint failed")
    ELSE Returned([id |-> NextId(rows), title |-> obj.title, type |-> obj.type,
                   start_time |-> obj.start_time, end_time |-> obj.end_time,
                   duration_seconds |-> obj.duration_seconds,
                   memo |-> obj.memo, user_id |-> obj.user_id])

\* faulty variant: the lookup by id alone, without the owner filter
FindOwnedUnscoped(rows, record_id, user_id) == {r \in rows : r.id = record_id}

\* ActivityRecord.query.filter_by(id=record_id, user_id=user_id).first()
FindOwned(rows, record_id, user_id) ==
    {r \in rows : r.id = record_id /\ r.user_id = user_id}

\* what a handler did with the session: did is "none" (no write attempted),
\* "commit", "rollback", or "abandoned" (an exception left the handler with
\* the session as it was; the request teardown discards it); failed tells
\* whether the persistence step itself raised
NoTxn == [did |-> "none", failed |-> FALSE]
Committed == [did |-> "commit", failed |-> FALSE]
RolledBack(failed) == [did |-> "rollback", failed |-> failed]
Abandoned(failed) == [did |-> "abandoned", failed |-> failed]

\* what a handler leaves behind: its response, the records table, the session
Outcome(response, rows, session) ==
    [resp |-> response, records |-> rows, txn |-> session]

\* required_fields of ActivityList.post
RequiredFields == {"title", "start_time", "end_time", "app", "duration_seconds"}

\* the try block of ActivityList.post: the inserted row, or what was raised
PostTry(rows, data, user_id, db_fails) ==
    LET st == fromisoformat(ReplaceZ(data["start_time"]))
        en == fromisoformat(ReplaceZ(data["end_time"]))
    IN  IF st.exc # "" THEN Raised(st.exc)
        ELSE IF en.exc # "" THEN Raised(en.exc)
        ELSE LET dur == DurationSeconds(en.val, st.val)
             IN  IF dur.exc # "" THEN Raised(dur.exc)
                 ELSE LET obj == ActivityRecordInit(
                                   [title |-> data["title"],
                                    app |-> data["app"],
                                    start_time |-> ToColumn(st.val),
                                    end_time |-> ToColumn(en.val),
                                    duration_seconds |-> dur.val,
                                    memo |-> DictGet(data, "memo", None),
                                    user_id |-> user_id])
                      IN  IF obj.exc # "" THEN Raised(obj.exc)
                          ELSE InsertRecord(rows, obj.val, db_fails)

\* ActivityList.post
Post(rows, data, user_id, db_fails) ==
    IF ~(RequiredFields \subseteq DOMAIN data)
    THEN Outcome(Response(400, ErrorBody("required fields missing")), rows, NoTxn)
    ELSE LET t == PostTry(rows, data, user_id, db_fails)
         IN  IF t.exc # ""
             THEN Outcome(Response(500, ErrorBody(t.exc)), rows, RolledBack(t.db))
             ELSE Outcome(Response(201, [message |-> "record added",
                                         record |-> to_dict(t.val)]),
                          rows \cup {t.val}, Committed)

\* truthiness of data.get('start_time'): None and '' are falsy
TimestampGiven(s) == s.zone # None /\ s.zone # "empty"

\* the try block of ActivityDetail.put: the updated row, or what was raised.
\* Line 141 reads record.app before anything is committed.
PutTry(record, data, db_fails) ==
    LET title == DictGet(data, "title", record.title)
        start_time_str == DictGet(data, "start_time", NoTimestamp)
        end_time_str == DictGet(data, "end_time", NoTimestamp)
        st == IF TimestampGiven(start_time_str)
              THEN fromisoformat(ReplaceZ(start_time_str))
              ELSE Returned(FromColumn(record.start_time))
        en == IF TimestampGiven(end_time_str)
              THEN fromisoformat(ReplaceZ(end_time_str))
              ELSE Returned(FromColumn(record.end_time))
        memo == DictGet(data, "memo", record.memo)
    IN  IF ~HasAttr("app") THEN Raised("AttributeError: 'ActivityRecord' object has no attribute 'app'")
        ELSE IF st.exc # "" THEN Raised(st.exc)
        ELSE IF en.exc # "" THEN Raised(en.exc)
        ELSE LET recompute == TimestampGiven(start_time_str) \/ TimestampGiven(end_time_str)
                 dur == IF recompute THEN DurationSeconds(en.val, st.val)
                        ELSE Returned(record.duration_seconds)
             IN  IF dur.exc # "" THEN Raised(dur.exc)
                 ELSE IF db_fails THEN DbRaised("OperationalError")
                 ELSE Returned([record EXCEPT !.title = title,
                                              !.start_time = ToColumn(st.val),
                                              !.end_time = ToColumn(en.val),
                                              !.memo = memo,
                                              !.duration_seconds = dur.val])

\* ActivityDetail.put
Put(rows, record_id, data, user_id, db_fails) ==
    LET found == FindOwned(rows, record_id, user_id)
    IN  IF found = {} THEN Outcome(NotFound404, rows, NoTxn)
        ELSE LET record == CHOOSE r \in found : TRUE
                 t == PutTry(record, data, db_fails)
             IN  IF t.exc # ""
                 THEN Outcome(Response(500, ErrorBody(t.exc)), rows, RolledBack(t.db))
                 ELSE Outcome(Response(200, [message |-> "record updated",
                                             record |-> to_dict(t.val)]),
                              (rows \ {record}) \cup {t.val}, Committed)

\* ActivityDetail.delete
Delete(rows, record_id, user_id, db_fails) ==
    LET found == FindOwned(rows, record_id, user_id)
    IN  IF found = {} THEN Outcome(NotFound404, rows, NoTxn)
        ELSE IF db_fails
        THEN Outcome(Response(500, ErrorBody("OperationalError")), rows, RolledBack(TRUE))
        ELSE Outcome(Response(200, [message |-> "record deleted"]),
                     rows \ found, Committed)

\* ActivityDetail.get
Get(rows, record_id, user_id) ==
    LET found == FindOwned(rows, record_id, user_id)
    IN  IF found = {} THEN Outcome(NotFound404, rows, NoTxn)
        ELSE Outcome(Response(200, to_dict(CHOOSE r \in found : TRUE)), rows, NoTxn)

\* ---------------------------------------------------------------- summary
\* .order_by(ActivityRecord.end_time.desc()).all(): latest end first; rows
\* with equal end_time come in primary-key order
RECURSIVE OrderByEndDesc(_)
OrderByEndDesc(S) ==
    IF S = {} THEN <<>>
    ELSE LET first == CHOOSE r \in S : \A o \in S :
                          \/ r.end_time > o.end_time
                          \/ (r.end_time = o.end_time /\ r.id <= o.id)
         IN  <<first>> \o OrderByEndDesc(S \ {first})

\* the query of ActivitySummary.get
WindowQuery(rows, user_id, start_date) ==
    OrderByEndDesc({r \in rows : r.user_id = user_id /\ r.end_time >= start_date})

\* the dates the loops over range(days) put into a dict
RangeDates(days, now) == {DateOf(now - i * SecondsPerDay) : i \in 0 .. (days - 1)}

\* sum of duration_seconds over a sequence of records, added one by one
RECURSIVE SumDurations(_)
SumDurations(recs) ==
    IF recs = <<>> THEN 0
    ELSE Head(recs).duration_seconds + SumDurations(Tail(recs))

\* faulty variant: a record ending on a date outside the range is dropped
DailySecondsInRangeOnly(days, now, recs) ==
    [d \in RangeDates(days, now) |->
        LET OnDay(r) == DateOf(r.end_time) = d IN SumDurations(SelectSeq(recs, OnDay))]

\* daily_seconds: every date of the range starts at 0; each record adds its
\* duration under the date of its end_time, creating the key if needed
DailySeconds(days, now, recs) ==
    [d \in RangeDates(days, now) \cup {DateOf(recs[i].end_time) : i \in DOMAIN recs} |->
        LET OnDay(r) == DateOf(r.end_time) = d IN SumDurations(SelectSeq(recs, OnDay))]

\* sorted(dict.items()) on date keys: ascending by date
RECURSIVE SortedKeys(_)
SortedKeys(D) ==
    IF D = {} THEN <<>>
    ELSE LET least == CHOOSE d \in D : \A o \in D : d <= o
         IN  <<least>> \o SortedKeys(D \ {least})

\* daily_breakdown
DailyBreakdown(daily_seconds) ==
    LET keys == SortedKeys(DOMAIN daily_seconds)
    IN  [i \in DOMAIN keys |->
            [date |-> keys[i], total_seconds |-> daily_seconds[keys[i]]]]

\* keys of activity_breakdown in insertion order: titles by first encounter
RECURSIVE TitlesInOrder(_, _)
TitlesInOrder(recs, seen) ==
    IF recs = <<>> THEN <<>>
    ELSE IF Head(recs).title \in seen THEN TitlesInOrder(Tail(recs), seen)
    ELSE <<Head(recs).title>> \o TitlesInOrder(Tail(recs), seen \cup {Head(recs).title})

\* activity_breakdown.items(): one [title, total_seconds] per title
ActivityBreakdown(recs) ==
    LET titles == TitlesInOrder(recs, {})
    IN  [i \in DOMAIN titles |->
            [title |-> titles[i],
             total_seconds |-> LET Titled(r) == r.title = titles[i]
                               IN  SumDurations(SelectSeq(recs, Titled))]]

\* sorted(items, key=total_seconds, reverse=True): stable, largest first
RECURSIVE InsertByTotal(_, _)
InsertByTotal(item, sorted) ==
    IF sorted = <<>> THEN <<item>>
    ELSE IF Head(sorted).total_seconds >= item.total_seconds
    THEN <<Head(sorted)>> \o InsertByTotal(item, Tail(sorted))
    ELSE <<item>> \o sorted

RECURSIVE SortByTotalDesc(_)
SortByTotalDesc(items) ==
    IF items = <<>> THEN <<>>
    ELSE InsertByTotal(items[Len(items)], SortByTotalDesc(SubSeq(items, 1, Len(items) - 1)))

\* top_activities
TopActivities(recs) == SortByTotalDesc(ActivityBreakdown(recs))

\* daily_stack_breakdown: date -> title -> seconds, {} for a date of the
\* range on which no record ends
DailyStackBreakdown(days, now, recs) ==
    [d \in RangeDates(days, now) \cup {DateOf(recs[i].end_time) : i \in DOMAIN recs} |->
        [t \in {recs[i].title : i \in {j \in DOMAIN recs : DateOf(recs[j].end_time) = d}} |->
            LET OnDayTitled(r) == DateOf(r.end_time) = d /\ r.title = t
            IN  SumDurations(SelectSeq(recs, OnDayTitled))]]

\* ActivitySummary.get, with days already defaulted by the request parser
Summary(rows, user_id, days, now) ==
    LET start_date == now - days * SecondsPerDay
        recs == WindowQuery(rows, user_id, start_date)
    IN  Outcome(Response(200,
                  [daily_total_summary |-> DailyBreakdown(DailySeconds(days, now, recs)),
                   top_activities |-> TopActivities(recs),
                   daily_stack_breakdown |-> DailyStackBreakdown(days, now, recs)]),
                rows, NoTxn)

\* parser.add_argument('days', type=int, default=7, location='args')
ParseDays(args) == DictGet(args, "days", DefaultDays)

\* ------------------------------------------------------------------- auth
\* what register/login leave behind: response, users table, session, and the
\* token issued (NoToken when none)
NoToken == [sub |-> Str(0), exp |-> None]

\* the tokens jwt_required accepts: those create_access_token can have
\* signed, whose subject is the id of a row of users
ValidTokens(rows) == {create_access_token(Str(u.id)) : u \in rows}

AuthOutcome(response, rows, session, token) ==
    [resp |-> response, users |-> rows, txn |-> session, token |-> token]

\* faulty variant: the lookup finds nothing
UsernameTakenNever(rows, username) == FALSE

\* the lookup of UserRegister.post: a row with this username exists
UsernameTaken(rows, username) == \E u \in rows : u.username = username

\* UserRegister.post.  The add/commit is not inside a try block: an
\* exception raised by the commit leaves the handler.
Register(rows, username, password, salt, db_fails) ==
    IF Falsy(username) \/ Falsy(password)
    THEN AuthOutcome(Response(400, ErrorBody("username and password required")),
                     rows, NoTxn, NoToken)
    ELSE IF UsernameTaken(rows, username)
    THEN AuthOutcome(Response(400, ErrorBody("user already exists")),
                     rows, NoTxn, NoToken)
    ELSE LET user == set_password([id |-> NextId(rows), username |-> username,
                                   password_hash |-> NoHash],
                                  salt, password)
         IN  IF db_fails \/ (\E u \in rows : u.username = username)
             THEN AuthOutcome(GenericError, rows, Abandoned(TRUE), NoToken)
             ELSE AuthOutcome(Response(201, [message |-> "registered"]),
                              rows \cup {user}, Committed, NoToken)

\* faulty variant: every password passes
CheckPasswordAlways(user, password) == Returned(TRUE)

\* user.check_password(password) as UserLogin.post calls it: the hash
\* functions take a str, and raise on None
CheckPassword(user, password) ==
    IF password = None THEN Raised("AttributeError: 'NoneType' object has no attribute 'encode'")
    ELSE Returned(check_password(user, password))

\* UserLogin.post
Login(rows, username, password) ==
    LET found == {u \in rows : u.username = username}
    IN  IF found = {} THEN AuthOutcome(BadCredentials401, rows, NoTxn, NoToken)
        ELSE LET user == CHOOSE u \in found : TRUE
                 ok == CheckPassword(user, password)
             IN  IF ok.exc # "" THEN AuthOutcome(GenericError, rows, NoTxn, NoToken)
                 ELSE IF ~ok.val THEN AuthOutcome(BadCredentials401, rows, NoTxn, NoToken)
                 ELSE LET access_token == create_access_token(Str(user.id))
                      IN  AuthOutcome(Response(200, [message |-> "logged in",
                                                     user |-> UserToDict(user),
                                                     token |-> access_token]),
                                      rows, NoTxn, access_token)

\* ----------------------------------------------------------------- inputs
EmptyDict == [k \in {} |-> 0]

Drop(d, k) == [j \in (DOMAIN d) \ {k} |-> d[j]]

\* second tod of day number day
At(day, tod) == day * SecondsPerDay + tod

Today == 3
LastSecond == SecondsPerDay - 1

Utc(t) == [secs |-> t, zone |-> "Z"]
Naive(t) == [secs |-> t, zone |-> ""]
Garbage == [secs |-> 0, zone |-> "bad"]

\* the moments at which a summary is requested: start and end of Today
Nows == {At(Today, 0), At(Today, LastSecond)}

Usernames == {"alice", "bob", "carol", ""}
Passwords == {"pw1", "pw2", "", None}

\* the users table when the service starts
SeedUsers ==
    {[id |-> 1, username |-> "alice", password_hash |-> generate_password_hash("s1", "pw1")],
     [id |-> 2, username |-> "bob", password_hash |-> generate_password_hash("s1", "pw2")]}

Row(id, user_id, title, type, memo, end_time, duration) ==
    [id |-> id, user_id |-> user_id, title |-> title, type |-> type, memo |-> memo,
     start_time |-> end_time - duration, end_time |-> end_time,
     duration_seconds |-> duration]

\* rows the activity_record table may hold when the service starts.  The
\* database file outlives the process (db.create_all keeps existing tables),
\* and it is the only source of record rows: ActivityList.post never commits
\* one.  Each row is consistent the way the handlers mean rows to be:
\* duration_seconds = end_time - start_time, a known type, no memo on APP.
\* Rows 2 and 5 end late on the days before Today, row 4 ends after it.
SeedRecords ==
    {Row(1, 1, "Reading", "MANUAL", "note", At(Today, 0), 1),
     Row(2, 1, "Chrome", "APP", None, At(Today - 1, LastSecond), 2),
     Row(3, 2, "Chrome", "APP", None, At(Today, LastSecond), 1),
     Row(4, 1, "Reading", "MANUAL", None, At(Today + 1, 0), 2),
     Row(5, 1, "Chrome", "APP", None, At(Today - 2, LastSecond), 1)}

MissingId == 999

\* bodies sent to POST /activity
CreateBodies ==
    LET full(ty, en) == [title |-> "Reading", app |-> "Reader", type |-> ty,
                         start_time |-> Utc(At(Today, 0)), end_time |-> en,
                         duration_seconds |-> 999, memo |-> "note"]
        good == full("MANUAL", Utc(At(Today, 1)))
    IN  {full(ty, Utc(At(Today, 1))) : ty \in {"MANUAL", "APP", "OTHER"}}
        \cup {full("MANUAL", Garbage), full("MANUAL", Naive(At(Today, 1)))}
        \cup {Drop(good, k) : k \in {"app", "type", "title"}}

\* bodies sent to PUT /activity/<id>
PutBodies ==
    {[memo |-> "note"],
     [memo |-> None],
     [title |-> "Writing"],
     [end_time |-> Utc(At(Today + 1, 0))],
     [start_time |-> Naive(At(Today - 2, 0)), duration_seconds |-> 999]}

DaysArgs == {EmptyDict} \cup {[days |-> n] : n \in 1 .. MaxDays}

\* the last request: db_fails is not part of it, it is the database's doing
Request(op, token, id, data, args, now) ==
    [op |-> op, token |-> token, id |-> id, data |-> data, args |-> args,
     now |-> now]

NoResponse == [status |-> 0, body |-> EmptyDict, by |-> "none"]

\* ------------------------------------------------------------ the machine
Init ==
    /\ users = SeedUsers
    /\ records \in {S \in SUBSET SeedRecords : Cardinality(S) <= MaxRecords}
    /\ req = Request("none", NoToken, 0, EmptyDict, EmptyDict, 0)
    /\ resp = NoResponse
    /\ txn = NoTxn

\* ids a client may ask for: those in the table and one that is in no table
RecordIds == {r.id : r \in records} \cup {MissingId}

\* POST /register
UserRegisterPost ==
    \E username \in Usernames, password \in Passwords, salt \in Salts, db_fails \in BOOLEAN :
        LET data == [username |-> username, password |-> password]
            out == Register(users, username, password, salt, db_fails)
        IN  /\ req' = Request("register", NoToken, 0, data, EmptyDict, 0)
            /\ users' = out.users
            /\ resp' = out.resp
            /\ txn' = out.txn
            /\ UNCHANGED <<records>>

\* POST /login
UserLoginPost ==
    \E username \in Usernames, password \in Passwords :
        LET data == [username |-> username, password |-> password]
            out == Login(users, username, password)
        IN  /\ req' = Request("login", NoToken, 0, data, EmptyDict, 0)
            /\ resp' = out.resp
            /\ txn' = out.txn
            /\ UNCHANGED <<users, records>>

\* a protected route called without a valid token: jwt_required answers
Unauthenticated ==
    \E op \in {"create", "put", "delete", "get", "summary"} :
        /\ req' = Request(op, NoToken, 0, EmptyDict, EmptyDict, 0)
        /\ resp' = Unauthorized401
        /\ txn' = NoTxn
        /\ UNCHANGED <<users, records>>

\* POST /activity
ActivityListPost ==
    \E token \in ValidTokens(users), data \in CreateBodies, db_fails \in BOOLEAN :
        LET out == Post(records, data, current_user_id(token), db_fails)
        IN  /\ req' = Request("create", token, 0, data, EmptyDict, 0)
            /\ records' = out.records
            /\ resp' = out.resp
            /\ txn' = out.txn
            /\ UNCHANGED <<users>>

\* PUT /activity/<record_id>
ActivityDetailPut ==
    \E token \in ValidTokens(users), record_id \in RecordIds, data \in PutBodies, db_fails \in BOOLEAN :
        LET out == Put(records, record_id, data, current_user_id(token), db_fails)
        IN  /\ req' = Request("put", token, record_id, data, EmptyDict, 0)
            /\ records' = out.records
            /\ resp' = out.resp
            /\ txn' = out.txn
            /\ UNCHANGED <<users>>

\* DELETE /activity/<record_id>
ActivityDetailDelete ==
    \E token \in ValidTokens(users), record_id \in RecordIds, db_fails \in BOOLEAN :
        LET out == Delete(records, record_id, current_user_id(token), db_fails)
        IN  /\ req' = Request("delete", token, record_id, EmptyDict, EmptyDict, 0)
            /\ records' = out.records
            /\ resp' = out.resp
            /\ txn' = out.txn
            /\ UNCHANGED <<users>>

\* GET /activity/<record_id>
ActivityDetailGet ==
    \E token \in ValidTokens(users), record_id \in RecordIds :
        LET out == Get(records, record_id, current_user_id(token))
        IN  /\ req' = Request("get", token, record_id, EmptyDict, EmptyDict, 0)
            /\ records' = out.records
            /\ resp' = out.resp
            /\ txn' = out.txn
            /\ UNCHANGED <<users>>

\* GET /activities/summary?days=N
ActivitySummaryGet ==
    \E token \in ValidTokens(users), args \in DaysArgs, now \in Nows :
        LET out == Summary(records, current_user_id(token), ParseDays(args), now)
        IN  /\ req' = Request("summary", token, 0, EmptyDict, args, now)
            /\ records' = out.records
            /\ resp' = out.resp
            /\ txn' = out.txn
            /\ UNCHANGED <<users>>

Next ==
    \/ UserRegisterPost
    \/ UserLoginPost
    \/ Unauthenticated
    \/ ActivityListPost
    \/ ActivityDetailPut
    \/ ActivityDetailDelete
    \/ ActivityDetailGet
    \/ ActivitySummaryGet

Spec == Init /\ [][Next]_vars

\* ----------------------------------------------------------- properties
\* the user a request was made as
Caller(q) == current_user_id(q.token)

Authenticated(q) == q.token # NoToken

\* some row with the requested id belongs to the caller
OwnsTarget(rows, q) == \E r \in rows : r.id = q.id /\ r.user_id = Caller(q)

\* C1: get, update and delete by a caller who does not own the requested id
\* (it belongs to another user, or to nobody) all answer with the one
\* not-found response, and leave the records table as it was.
C1_Isolation ==
    [][ ( /\ req'.op \in {"get", "put", "delete"}
          /\ Authenticated(req')
          /\ ~OwnsTarget(records, req') )
        => ( /\ resp' = NotFound404
             /\ records' = records ) ]_vars

\* C1 witness: a delete aimed at another user's record was answered 404 and
\* the record is still stored.
C1_Witness ==
    /\ req.op = "delete"
    /\ Authenticated(req)
    /\ \E r \in records : r.id = req.id /\ r.user_id # Caller(req)
    /\ resp = NotFound404

\* the fields the interface table lists as required for POST /activity
ContractFields == {"title", "type", "start_time", "end_time", "duration_seconds"}

ActivityTypes == {"MANUAL", "APP"}

\* a timestamp string that fromisoformat accepts after the Z replacement
Parseable(s) == s.zone \in {"Z", "+00:00", ""}

\* a create request that meets the contract: authenticated, every required
\* field present, a known type, timestamps that parse (both in UTC)
ValidCreate(q) ==
    /\ q.op = "create"
    /\ Authenticated(q)
    /\ ContractFields \subseteq DOMAIN q.data
    /\ q.data.type \in ActivityTypes
    /\ Parseable(q.data.start_time) /\ q.data.start_time.zone = q.data.end_time.zone
    /\ Parseable(q.data.end_time)

\* C2 (as claimed): a create request that meets the contract is answered 201,
\* adds exactly one row, owned by the caller and carrying the submitted title,
\* type, start_time and end_time, and returns that row.
C2_CreateSucceeds ==
    [][ ValidCreate(req')
        => ( /\ resp'.status = 201
             /\ \E r \in records' \ records :
                    /\ records' = records \cup {r}
                    /\ r.user_id = Caller(req')
                    /\ r.title = req'.data.title
                    /\ r.type = req'.data.type
                    /\ r.start_time = req'.data.start_time.secs
                    /\ r.end_time = req'.data.end_time.secs
                    /\ resp'.body.record = to_dict(r) ) ]_vars

C4_AppMemoForbidden ==
    /\ [](\A r \in records : r.type = "APP" => r.memo = None)
    /\ [][ ( /\ req'.op = "put"
             /\ Authenticated(req')
             /\ \E r \in records : /\ r.id = req'.id
                                   /\ r.user_id = Caller(req')
                                   /\ r.type = "APP"
             /\ "memo" \in DOMAIN req'.data
             /\ req'.data.memo # None )
           => ( /\ resp'.status = 403
                /\ records' = records ) ]_vars

\* C5: a register call with an empty username or password is answered 400
\* (validation) and one for a username already in the table is answered 400
\* (conflict), neither inserting a row; a call answered 201 adds exactly one
\* row, with the submitted username, and nothing else changes the table; no
\* two rows of users ever share a username.
C5_RegisterUnique ==
    /\ [](\A a, b \in users : a.username = b.username => a = b)
    /\ [][ req'.op = "register"
           => LET username == req'.data.username
                  password == req'.data.password
              IN  /\ (Falsy(username) \/ Falsy(password))
                       => ( /\ resp' = Response(400, ErrorBody("username and password required"))
                            /\ users' = users )
                  /\ ( /\ ~Falsy(username) /\ ~Falsy(password)
                       /\ \E u \in users : u.username = username )
                       => ( /\ resp' = Response(400, ErrorBody("user already exists"))
                            /\ users' = users )
                  /\ resp'.status = 201
                       => \E u \in users' \ users :
                              /\ users' = users \cup {u}
                              /\ u.username = username
                              /\ \A o \in users : o.id # u.id
                  /\ resp'.status # 201 => users' = users ]_vars

\* C5 witness: a second registration of a stored username was refused as a
\* conflict after a first registration had added a row.
C5_Witness ==
    /\ req.op = "register"
    /\ req.data.username = "carol"
    /\ resp = Response(400, ErrorBody("user already exists"))
    /\ Cardinality({u \in users : u.username = "carol"}) = 1
    /\ Cardinality(users) = Cardinality(SeedUsers) + 1

\* the password is the one the row's hash was made from
PasswordOf(u, password) ==
    u.password_hash = generate_password_hash(u.password_hash.salt, password)

DaysOf(q) == IF "days" \in DOMAIN q.args THEN q.args.days ELSE DefaultDays

WindowStart(q) == q.now - DaysOf(q) * SecondsPerDay

\* the caller's rows that end at or after the start of the window
Included(rows, q) ==
    {r \in rows : r.user_id = Caller(q) /\ r.end_time >= WindowStart(q)}

\* sum of duration_seconds over a set of rows
RECURSIVE TotalOf(_)
TotalOf(S) ==
    IF S = {} THEN 0
    ELSE LET r == CHOOSE x \in S : TRUE IN r.duration_seconds + TotalOf(S \ {r})

\* sum of total_seconds over a list of entries
RECURSIVE SumTotals(_)
SumTotals(entries) ==
    IF entries = <<>> THEN 0
    ELSE Head(entries).total_seconds + SumTotals(Tail(entries))

\* C7 (as claimed): daily_total_summary of a summary for N >= 1 days has
\* exactly N entries, one for each of the N calendar days up to the day of
\* now, each total is >= 0, and a day on which no included record ends
\* reports 0.
C7_ExactlyNDays ==
    (req.op = "summary" /\ Authenticated(req) /\ DaysOf(req) >= 1)
    => LET daily == resp.body.daily_total_summary
           N == DaysOf(req)
       IN  /\ Len(daily) = N
           /\ {daily[i].date : i \in DOMAIN daily}
                = {DateOf(req.now) - i : i \in 0 .. (N - 1)}
           /\ \A i \in DOMAIN daily :
                /\ daily[i].total_seconds >= 0
                /\ (\A r \in Included(records, req) : DateOf(r.end_time) # daily[i].date)
                     => daily[i].total_seconds = 0

\* C8: in every summary the daily totals and the per-title totals both add
\* up to the sum of duration_seconds over exactly the caller's rows that end
\* at or after the window start.
C8_TotalsAgree ==
    (req.op = "summary" /\ Authenticated(req))
    => /\ SumTotals(resp.body.daily_total_summary) = TotalOf(Included(records, req))
       /\ SumTotals(resp.body.top_activities) = TotalOf(Included(records, req))

\* C8 witness: a summary over two rows of the caller, one of them ending on
\* a day outside the N initialised days, while another user's row ends in
\* the window.
C8_Witness ==
    /\ req.op = "summary"
    /\ Authenticated(req)
    /\ Cardinality(Included(records, req)) >= 2
    /\ TotalOf(Included(records, req)) > 0
    /\ \E r \in Included(records, req) :
           DateOf(r.end_time) \notin RangeDates(DaysOf(req), req.now)
    /\ \E r \in records : r.user_id # Caller(req) /\ r.end_time >= WindowStart(req)

\* C9 (as claimed): a create request with a required field missing or a type
\* outside {MANUAL, APP} is answered 400 and stores nothing; every stored row
\* has a type in {MANUAL, APP}.
C9_CreateValidates ==
    /\ [](\A r \in records : r.type \in ActivityTypes)
    /\ [][ ( /\ req'.op = "create"
             /\ Authenticated(req')
             /\ \/ ~(ContractFields \subseteq DOMAIN req'.data)
                \/ req'.data.type \notin ActivityTypes )
           => ( /\ resp'.status = 400
                /\ records' = records ) ]_vars

\* C10 (as claimed): when the persistence step of a mutating handler raises,
\* the handler itself rolls back and answers with a JSON {error: message}
\* body and the mapped status, users and records are as before the call, and
\* nothing is left to the framework's generic handler.
C10_FailuresHandledLocally ==
    [][ (req'.op \in {"register", "create", "put", "delete"} /\ txn'.failed)
        => ( /\ txn'.did = "rollback"
             /\ resp'.by = "handler"
             /\ resp'.status = 500
             /\ DOMAIN resp'.body = {"error"}
             /\ users' = users
             /\ records' = records ) ]_vars

\* the row an update with this patch is claimed to leave in place of r:
\* the fields present in the patch replaced, duration_seconds recomputed from
\* the resulting pair of timestamps when the patch supplies either of them
Patched(r, patch) ==
    LET start_time == IF "start_time" \in DOMAIN patch
                      THEN patch.start_time.secs ELSE r.start_time
        end_time == IF "end_time" \in DOMAIN patch
                    THEN patch.end_time.secs ELSE r.end_time
    IN  [id |-> r.id, user_id |-> r.user_id, type |-> r.type,
         title |-> IF "title" \in DOMAIN patch THEN patch.title ELSE r.title,
         memo |-> IF "memo" \in DOMAIN patch THEN patch.memo ELSE r.memo,
         start_time |-> start_time,
         end_time |-> end_time,
         duration_seconds |-> IF {"start_time", "end_time"} \cap DOMAIN patch # {}
                              THEN end_time - start_time
                              ELSE r.duration_seconds]

\* C11 (as claimed): an update of a record the caller owns, with a patch
\* that does not set a memo on an APP record, succeeds (the database not
\* refusing the write) and leaves in place of the record the row with
\* exactly the patch's fields changed, duration_seconds recomputed from the
\* new and the stored old timestamp when only one is supplied; id, user_id,
\* type, the absent fields and every other record are unchanged.
C11_PartialUpdate ==
    [][ ( /\ req'.op = "put"
          /\ Authenticated(req')
          /\ OwnsTarget(records, req')
          /\ ~txn'.failed )
        => \A r \in records :
             ( /\ r.id = req'.id
               /\ r.user_id = Caller(req')
               /\ ~( /\ r.type = "APP"
                     /\ "memo" \in DOMAIN req'.data
                     /\ req'.data.memo # None ) )
             => ( /\ resp'.status = 200
                  /\ records' = (records \ {r}) \cup {Patched(r, req'.data)} ) ]_vars

====
